---- MODULE Spec2Model ----
(***************************************************************************)
(* Model of the chat server: the room registry (getRoom), the room loop    *)
(* (room.run), the per-connection handler (main's /room handler and        *)
(* room.ServeHTTP) and the two goroutines of a client (client.read,        *)
(* client.write).                                                          *)
(*                                                                         *)
(* join, leave and forward are unbuffered channels: a send and the room    *)
(* loop's receive are one rendezvous step.  client.receive is a buffered   *)
(* channel, modelled as a bounded sequence plus a closed flag.             *)
(***************************************************************************)
EXTENDS Integers, Sequences, FiniteSets, TLC

\* Number of frames the peers send in total.
MaxMsgs == 3
\* Capacity of client.receive (256 in room.go, scaled down so that a full
\* queue is reached).
messageBufferSize == 1

\* The connections the environment opens: the two racing connections of the
\* registry scenario, which are also the two members of the room scenarios.
Conns == {1, 2}
RoomNames == {"alpha", "beta"}
\* The value of the "room" query parameter: a name, or "" when it is missing.
Params == RoomNames \cup {""}
Texts == {"hi"}
\* fmt.Sprintf("user%d", rand.Intn(1000)): the numbers the generator may draw.
UserNums == {7}
NoRoom == 0
NoConn == 0
NoMsg == [id |-> 0]
StatusSwitchingProtocols == 101
StatusBadRequest == 400

VARIABLES
    mu,        \* sync.Mutex of the registry: NoConn, or the handler holding it
    rooms,     \* the registry map: name -> room instance (NoRoom: no entry)
    rm,        \* the room instances, in creation order: each a record with
               \*   clients, the state of its run loop (rpc, msg, cur, todo,
               \*   leaving) and the name it was created for
    pc,        \* where each connection's handler goroutine stands
    reqName,   \* the room parameter of the request
    found,     \* getRoom's local: the result of the map lookup
    recv,      \* main.go's realRoom: the receiver of ServeHTTP
    realRoom,  \* ServeHTTP's realRoom
    resp,      \* HTTP status written by the handler (0: none yet)
    sock,      \* the websocket: "none", "open", "closed"
    name,      \* client.name
    receive,   \* client.receive: the buffered messages
    closed,    \* client.receive was closed
    qcap,      \* the capacity client.receive is made with
    wpc,       \* client.write goroutine: "none", "run", "done"
    jsMessage, \* the reader's encoded message waiting on room.forward
    nread,     \* frames read so far by all readers
    panicked,  \* a goroutine panicked (send on / close of a closed channel)
    pending,   \* the handlers parked in a send on a room's join, leave or
               \*   forward channel, in the order they arrived (oldest first)
    enq,       \* history: ids of the messages enqueued on client.receive
    proc       \* history: id and sender of the messages each room loop received

vars == <<mu, rooms, rm, pc, reqName, found, recv, realRoom, resp, sock, name,
          receive, closed, qcap, wpc, jsMessage, nread, panicked, pending, enq,
          proc>>

connVars == <<sock, name, receive, closed, wpc, jsMessage>>

\* The room instances that exist; each getRoom call creates at most one.
Rooms == 1..Len(rm)
RoomIds == 1..(2 * Cardinality(Conns))

\* newRoom(): unbuffered channels, empty clients map; the loop waits in select.
newRoom(n) ==
    [clients |-> {}, rpc |-> "select", msg |-> NoMsg, cur |-> NoConn,
     todo |-> {}, leaving |-> NoConn, name |-> n]

\* json.Marshal(map[string]string{"name": .., "message": ..}): the keys in
\* sorted order; a map of strings always encodes (err is nil).
Marshal(n, text) ==
    [err |-> FALSE, bytes |-> <<"message", text, "name", n>>]

Sprintf(k) == <<"user", k>>

Remove(s, h) == SelectSeq(s, LAMBDA x : x # h)

\* The handlers parked on channel ch ("join", "leave", "forward") of room r,
\* oldest first: the channel's queue of waiting senders.
SendQ(r, ch) == SelectSeq(pending, LAMBDA x : realRoom[x] = r /\ pc[x] = ch)

\* A receive on an unbuffered channel takes the value of the sender that has
\* waited longest on that channel.
FirstSender(r, ch, h) == SendQ(r, ch) # <<>> /\ Head(SendQ(r, ch)) = h

\* The program after main has set up its routes: no room, no connection.
Start ==
    /\ mu = NoConn
    /\ rooms = [n \in Params |-> NoRoom]
    /\ rm = <<>>
    /\ pc = [h \in Conns |-> "idle"]
    /\ reqName = [h \in Conns |-> ""]
    /\ found = [h \in Conns |-> NoRoom]
    /\ recv = [h \in Conns |-> NoRoom]
    /\ realRoom = [h \in Conns |-> NoRoom]
    /\ resp = [h \in Conns |-> 0]
    /\ sock = [h \in Conns |-> "none"]
    /\ name = [h \in Conns |-> <<>>]
    /\ receive = [h \in Conns |-> <<>>]
    /\ closed = [h \in Conns |-> FALSE]
    /\ wpc = [h \in Conns |-> "none"]
    /\ jsMessage = [h \in Conns |-> NoMsg]
    /\ nread = 0
    /\ panicked = FALSE
    /\ pending = <<>>
    /\ enq = [h \in Conns |-> <<>>]
    /\ proc = <<>>

\* Every queue is made with make(chan []byte, messageBufferSize).
Init == Start /\ qcap = messageBufferSize

\* The same program with one more slot in every queue, so that a queue can
\* hold messages of two broadcasts at once.
WideInit == Start /\ qcap = messageBufferSize + 1

----------------------------------------------------------------------------
(* main.go: the /room handler *)

\* A handler that lets a request without room parameter through.
MissingParam_Never(n) == FALSE

\* main.go 43: if roomName == "".  Query().Get gives "" for a missing
\* parameter.
MissingParam(n) == n = ""

\* A request arrives (connections are opened in the order of their numbers).
\* main.go 42-46: a missing room parameter is answered with 400.
Request(h, n) ==
    /\ ~panicked
    /\ pc[h] = "idle"
    /\ \A g \in Conns : g < h => pc[g] # "idle"
    /\ reqName' = [reqName EXCEPT ![h] = n]
    /\ IF MissingParam(n)
       THEN /\ resp' = [resp EXCEPT ![h] = StatusBadRequest]
            /\ pc' = [pc EXCEPT ![h] = "done"]
       ELSE /\ resp' = resp
            /\ pc' = [pc EXCEPT ![h] = "main_getRoom"]
    /\ UNCHANGED <<mu, rooms, rm, found, recv, realRoom, connVars, nread,
                   panicked, pending, enq, proc>>
    /\ UNCHANGED qcap

----------------------------------------------------------------------------
(* room.go: getRoom *)

\* A registry without mutual exclusion: Lock never waits.
MuFree_NoExclusion == TRUE

\* mu.Lock() returns only when no goroutine holds the mutex.
MuFree == mu = NoConn

\* A lookup that finds no entry.
Lookup_Miss(n) == NoRoom

\* r, exists := rooms[roomName]
Lookup(n) == rooms[n]

\* getRoom 61-65: take the lock, look the name up.
GetRoomLock(h) ==
    /\ ~panicked
    /\ pc[h] \in {"main_getRoom", "serve_getRoom"}
    /\ MuFree
    /\ mu' = h
    /\ found' = [found EXCEPT ![h] = Lookup(reqName[h])]
    /\ pc' = [pc EXCEPT ![h] = IF pc[h] = "main_getRoom" THEN "main_cs"
                                                        ELSE "serve_cs"]
    /\ UNCHANGED <<rooms, rm, reqName, recv, realRoom, resp, connVars, nread,
                   panicked, pending, enq, proc>>
    /\ UNCHANGED qcap

\* getRoom 65-74: return the room found, or create, store and start one;
\* the deferred mu.Unlock() runs on return.
GetRoomReturn(h) ==
    /\ ~panicked
    /\ pc[h] \in {"main_cs", "serve_cs"}
    /\ LET r == IF found[h] # NoRoom THEN found[h] ELSE Len(rm) + 1
       IN /\ IF found[h] # NoRoom
             THEN UNCHANGED <<rooms, rm, proc>>
             ELSE /\ rm' = Append(rm, newRoom(reqName[h]))
                  /\ rooms' = [rooms EXCEPT ![reqName[h]] = r]
                  /\ proc' = Append(proc, <<>>)
          /\ IF pc[h] = "main_cs"
             THEN /\ recv' = [recv EXCEPT ![h] = r]
                  /\ pc' = [pc EXCEPT ![h] = "serve"]
                  /\ UNCHANGED realRoom
             ELSE /\ realRoom' = [realRoom EXCEPT ![h] = r]
                  /\ pc' = [pc EXCEPT ![h] = "upgrade"]
                  /\ UNCHANGED recv
    /\ mu' = NoConn
    /\ found' = [found EXCEPT ![h] = NoRoom]
    /\ UNCHANGED <<reqName, resp, connVars, nread, panicked, pending, enq>>
    /\ UNCHANGED qcap

----------------------------------------------------------------------------
(* room.go: ServeHTTP *)

\* ServeHTTP 86-92: read the room parameter again, 400 when it is missing,
\* else go on to getRoom.
ServeHTTPEntry(h) ==
    /\ ~panicked
    /\ pc[h] = "serve"
    /\ IF reqName[h] = ""
       THEN /\ resp' = [resp EXCEPT ![h] = StatusBadRequest]
            /\ pc' = [pc EXCEPT ![h] = "done"]
       ELSE /\ resp' = resp
            /\ pc' = [pc EXCEPT ![h] = "serve_getRoom"]
    /\ UNCHANGED <<mu, rooms, rm, reqName, found, recv, realRoom, connVars,
                   nread, panicked, pending, enq, proc>>
    /\ UNCHANGED qcap

\* ServeHTTP 94-98: the upgrade fails, the handler returns.
UpgradeFail(h) ==
    /\ ~panicked
    /\ pc[h] = "upgrade"
    /\ pc' = [pc EXCEPT ![h] = "done"]
    /\ resp' = [resp EXCEPT ![h] = StatusBadRequest]
    /\ UNCHANGED <<mu, rooms, rm, reqName, found, recv, realRoom, connVars,
                   nread, panicked, pending, enq, proc>>
    /\ UNCHANGED qcap

\* ServeHTTP 94-105: the upgrade succeeds, the client is constructed and the
\* handler blocks on realRoom.join <- client.
UpgradeOk(h, k) ==
    /\ ~panicked
    /\ pc[h] = "upgrade"
    /\ sock' = [sock EXCEPT ![h] = "open"]
    /\ name' = [name EXCEPT ![h] = Sprintf(k)]
    /\ receive' = [receive EXCEPT ![h] = <<>>]
    /\ resp' = [resp EXCEPT ![h] = StatusSwitchingProtocols]
    /\ pc' = [pc EXCEPT ![h] = "join"]
    /\ pending' = Append(pending, h)
    /\ UNCHANGED <<mu, rooms, rm, reqName, found, recv, realRoom, closed, wpc,
                   jsMessage, nread, panicked, enq, proc>>
    /\ UNCHANGED qcap

----------------------------------------------------------------------------
(* client.go: read *)

\* A reader that goes on before the room has taken its message.
InReadMessage_NoWait(h) == pc[h] \in {"read", "forward"}

\* The reader is in c.socket.ReadMessage(): every send on c.room.forward it
\* made has returned.
InReadMessage(h) == pc[h] = "read"

\* read 29-48: a frame arrives, is encoded and the reader blocks on
\* c.room.forward <- jsMessage; when encoding fails the frame is dropped.
ReadMessage(h, text) ==
    /\ ~panicked
    /\ InReadMessage(h)
    /\ sock[h] = "open"
    /\ nread < MaxMsgs
    /\ nread' = nread + 1
    /\ LET js == Marshal(name[h], text)
       IN IF js.err
          THEN UNCHANGED <<jsMessage, pc, pending>>
          ELSE /\ jsMessage' = [jsMessage EXCEPT ![h] =
                     [id |-> nread + 1, from |-> h, bytes |-> js.bytes]]
               /\ pc' = [pc EXCEPT ![h] = "forward"]
               /\ pending' = Append(pending, h)
    /\ UNCHANGED <<mu, rooms, rm, reqName, found, recv, realRoom, resp, sock,
                   name, receive, closed, wpc, panicked, enq, proc>>
    /\ UNCHANGED qcap

\* read 26-33, ServeHTTP 107-109: ReadMessage fails (the peer went away, or
\* the socket was closed by the writer); the deferred socket.Close() runs,
\* read returns and the handler's deferred function blocks on
\* realRoom.leave <- client.
ReadError(h) ==
    /\ ~panicked
    /\ InReadMessage(h)
    /\ sock' = [sock EXCEPT ![h] = "closed"]
    /\ pc' = [pc EXCEPT ![h] = "leave"]
    /\ pending' = Append(pending, h)
    /\ UNCHANGED <<mu, rooms, rm, reqName, found, recv, realRoom, resp, name,
                   receive, closed, wpc, jsMessage, nread, panicked, enq, proc>>
    /\ UNCHANGED qcap

----------------------------------------------------------------------------
(* client.go: write *)

\* A writer whose deferred call closes its queue as well.
WriteDeferred_CloseQueue(h) == [closed EXCEPT ![h] = TRUE]

\* write 53: defer c.socket.Close() closes the socket and nothing else: the
\* queue is closed by the room alone.
WriteDeferred(h) == closed

\* write 54-55: take the next message off c.receive and write it.
WriteOk(h) ==
    /\ ~panicked
    /\ wpc[h] = "run"
    /\ receive[h] # <<>>
    /\ sock[h] = "open"
    /\ receive' = [receive EXCEPT ![h] = Tail(@)]
    /\ UNCHANGED <<mu, rooms, rm, pc, reqName, found, recv, realRoom, resp,
                   sock, name, closed, wpc, jsMessage, nread, panicked,
                   pending, enq, proc>>
    /\ UNCHANGED qcap

\* write 53-58: the write fails (always on a closed socket); write returns
\* and its deferred socket.Close() runs.
WriteError(h) ==
    /\ ~panicked
    /\ wpc[h] = "run"
    /\ receive[h] # <<>>
    /\ receive' = [receive EXCEPT ![h] = Tail(@)]
    /\ sock' = [sock EXCEPT ![h] = "closed"]
    /\ closed' = WriteDeferred(h)
    /\ wpc' = [wpc EXCEPT ![h] = "done"]
    /\ UNCHANGED <<mu, rooms, rm, pc, reqName, found, recv, realRoom, resp,
                   name, jsMessage, nread, panicked, pending, enq, proc>>
    /\ UNCHANGED qcap

\* write 53-54: c.receive is closed and drained, the range loop ends.
WriteEnd(h) ==
    /\ ~panicked
    /\ wpc[h] = "run"
    /\ receive[h] = <<>>
    /\ closed[h]
    /\ sock' = [sock EXCEPT ![h] = "closed"]
    /\ closed' = WriteDeferred(h)
    /\ wpc' = [wpc EXCEPT ![h] = "done"]
    /\ UNCHANGED <<mu, rooms, rm, pc, reqName, found, recv, realRoom, resp,
                   name, receive, jsMessage, nread, panicked, pending, enq,
                   proc>>
    /\ UNCHANGED qcap

----------------------------------------------------------------------------
(* room.go: run *)

\* A loop that takes requests while a broadcast is under way.
Idle_Always(r) == TRUE

\* A loop that waits for the broadcasts of every room to be over.
Idle_Global(r) == \A q \in Rooms : rm[q].rpc = "select"

\* The for/select loop receives from its channels only at the select.
Idle(r) == rm[r].rpc = "select"

\* A join that replaces the set instead of adding to it.
AddClient_Overwrite(S, h) == {h}

\* r.clients[client] = true
AddClient(S, h) == S \cup {h}

\* A leave that closes the queue but keeps the client in the set.
RemoveClient_Keep(S, h) == S

\* delete(r.clients, client)
RemoveClient(S, h) == S \ {h}

\* A broadcast that ranges over every client that ever joined the room.
Recipients_EverJoined(r) == {h \in Conns : realRoom[h] = r /\ wpc[h] # "none"}

\* A broadcast that leaves out the sender of the message being taken.
Recipients_NoEcho(r) ==
    rm[r].clients \ {h \in Conns : FirstSender(r, "forward", h)}

\* A broadcast that also reaches the clients still waiting to join.
Recipients_WithJoining(r) ==
    rm[r].clients \cup {h \in Conns : realRoom[h] = r /\ pc[h] = "join"}

\* for client := range r.clients: the clients a broadcast ranges over.
Recipients(r) == rm[r].clients

\* run 40-41: case client := <-r.join.  The handler's send returns; it starts
\* the writer (ServeHTTP 110) and enters client.read().
RoomJoin(r, h) ==
    /\ ~panicked
    /\ r \in Rooms
    /\ Idle(r)
    /\ FirstSender(r, "join", h)
    /\ rm' = [rm EXCEPT ![r].clients = AddClient(@, h)]
    /\ pc' = [pc EXCEPT ![h] = "read"]
    /\ wpc' = [wpc EXCEPT ![h] = "run"]
    /\ pending' = Remove(pending, h)
    /\ UNCHANGED <<mu, rooms, reqName, found, recv, realRoom, resp, sock, name,
                   receive, closed, jsMessage, nread, panicked, enq, proc>>
    /\ UNCHANGED qcap

\* run 43-44: case client := <-r.leave: delete(r.clients, client).  The
\* handler's deferred send returns and the handler ends.
RoomLeave(r, h) ==
    /\ ~panicked
    /\ r \in Rooms
    /\ Idle(r)
    /\ FirstSender(r, "leave", h)
    /\ rm' = [rm EXCEPT ![r].clients = RemoveClient(@, h), ![r].rpc = "close",
                        ![r].leaving = h]
    /\ pc' = [pc EXCEPT ![h] = "done"]
    /\ pending' = Remove(pending, h)
    /\ UNCHANGED <<mu, rooms, reqName, found, recv, realRoom, resp, connVars,
                   nread, panicked, enq, proc>>
    /\ UNCHANGED qcap

\* run 45: close(client.receive); closing a closed channel panics.
RoomClose(r) ==
    /\ ~panicked
    /\ r \in Rooms
    /\ rm[r].rpc = "close"
    /\ IF closed[rm[r].leaving]
       THEN /\ panicked' = TRUE
            /\ UNCHANGED <<rm, closed>>
       ELSE /\ closed' = [closed EXCEPT ![rm[r].leaving] = TRUE]
            /\ rm' = [rm EXCEPT ![r].rpc = "select", ![r].leaving = NoConn]
            /\ UNCHANGED panicked
    /\ UNCHANGED <<mu, rooms, pc, reqName, found, recv, realRoom, resp, sock,
                   name, receive, wpc, jsMessage, nread, pending, enq, proc>>
    /\ UNCHANGED qcap

\* run 47-48: case msg := <-r.forward; the range over r.clients starts at a
\* client the map iteration picks.  The reader's send returns.
RoomForward(r, h) ==
    /\ ~panicked
    /\ r \in Rooms
    /\ Idle(r)
    /\ FirstSender(r, "forward", h)
    /\ pc' = [pc EXCEPT ![h] = "read"]
    /\ jsMessage' = [jsMessage EXCEPT ![h] = NoMsg]
    /\ pending' = Remove(pending, h)
    /\ proc' = [proc EXCEPT ![r] =
                    Append(@, [id |-> jsMessage[h].id, from |-> h])]
    /\ IF Recipients(r) = {}
       THEN rm' = rm
       ELSE \E c \in Recipients(r) :
               rm' = [rm EXCEPT ![r].rpc = "forward", ![r].msg = jsMessage[h],
                                ![r].cur = c, ![r].todo = Recipients(r) \ {c}]
    /\ UNCHANGED <<mu, rooms, reqName, found, recv, realRoom, resp, sock, name,
                   receive, closed, wpc, nread, panicked, enq>>
    /\ UNCHANGED qcap

\* A queue that hands out the newest message first.
Enqueue_Front(q, m) == <<m>> \o q

\* client.receive <- msg: a channel is a first-in first-out queue, the
\* message goes to its end.
Enqueue(q, m) == Append(q, m)

\* client.receive <- msg can proceed: the buffer has room (a send on a closed
\* channel does not wait: it panics).
CanSend(c) == closed[c] \/ Len(receive[c]) < qcap

\* run 48-50: client.receive <- msg for the current client of the range, then
\* on to the next client, or back to select after the last.
RoomSend(r) ==
    /\ ~panicked
    /\ r \in Rooms
    /\ rm[r].rpc = "forward"
    /\ LET c == rm[r].cur
       IN /\ CanSend(c)
          /\ IF closed[c]
             THEN /\ panicked' = TRUE
                  /\ UNCHANGED <<rm, receive, enq>>
             ELSE /\ receive' = [receive EXCEPT ![c] = Enqueue(@, rm[r].msg)]
                  /\ enq' = [enq EXCEPT ![c] = Append(@, rm[r].msg.id)]
                  /\ UNCHANGED panicked
                  /\ IF rm[r].todo = {}
                     THEN rm' = [rm EXCEPT ![r].rpc = "select",
                                           ![r].msg = NoMsg,
                                           ![r].cur = NoConn]
                     ELSE \E d \in rm[r].todo :
                             rm' = [rm EXCEPT ![r].cur = d,
                                              ![r].todo = @ \ {d}]
    /\ UNCHANGED <<mu, rooms, pc, reqName, found, recv, realRoom, resp, sock,
                   name, closed, wpc, jsMessage, nread, pending, proc>>
    /\ UNCHANGED qcap

----------------------------------------------------------------------------

Handler ==
    \E h \in Conns :
        \/ \E n \in Params : Request(h, n)
        \/ GetRoomLock(h)
        \/ GetRoomReturn(h)
        \/ ServeHTTPEntry(h)
        \/ UpgradeFail(h)
        \/ \E k \in UserNums : UpgradeOk(h, k)
        \/ \E text \in Texts : ReadMessage(h, text)
        \/ ReadError(h)

Writer ==
    \E h \in Conns : WriteOk(h) \/ WriteError(h) \/ WriteEnd(h)

Run ==
    \E r \in RoomIds :
        \/ \E h \in Conns : RoomJoin(r, h) \/ RoomLeave(r, h) \/ RoomForward(r, h)
        \/ RoomClose(r)
        \/ RoomSend(r)

\* Every step is guarded by ~panicked: a panic ends the process.
Next == Handler \/ Writer \/ Run

Spec == Init /\ [][Next]_vars

\* The Go scheduler runs every goroutine that can take a step.
FairSpec == Spec /\ WF_vars(Next)
WideSpec == WideInit /\ [][Next]_vars

----------------------------------------------------------------------------
(* Properties *)

\* The rooms created for name n, each with its run loop.
Created(n) == {r \in Rooms : rm[r].name = n}

\* C1: however the getRoom calls for one name interleave, exactly one room
\* is created (and one run loop started) for that name, and every call
\* returns that room.
C1_RegistrySingleInstance ==
    /\ \A n \in RoomNames :
          /\ Cardinality(Created(n)) <= 1
          /\ rooms[n] # NoRoom => Created(n) = {rooms[n]}
          /\ rooms[n] = NoRoom => Created(n) = {}
    /\ \A h \in Conns :
          /\ found[h] # NoRoom => found[h] = rooms[reqName[h]]
          /\ recv[h] # NoRoom => recv[h] = rooms[reqName[h]]
          /\ realRoom[h] # NoRoom => realRoom[h] = rooms[reqName[h]]

\* Two connections asked for the same name, and all four getRoom calls
\* returned the one room.
C1_Witness ==
    \E g, h \in Conns :
        /\ g # h
        /\ reqName[g] = reqName[h]
        /\ recv[g] # NoRoom
        /\ {recv[g], realRoom[g], recv[h], realRoom[h]} = {recv[g]}

\* The clients the broadcast under way in room r has still to enqueue to.
Targets(r) ==
    IF rm[r].rpc = "forward" THEN {rm[r].cur} \cup rm[r].todo ELSE {}

\* The clients that were enqueued message m last.
GotLast(m) == {c \in Conns : enq[c] # <<>> /\ enq[c][Len(enq[c])] = m}

\* The room has processed the Leave of x (its queue is closed at the end of
\* that step).
LeaveProcessed(x) == closed[x]

\* C3: once the room has processed the Leave of x, nothing more is enqueued
\* on x.receive, and no broadcast fails (no send on a closed queue).
C3_NoDeliveryAfterLeave ==
    /\ [](~panicked)
    /\ [][\A x \in Conns : LeaveProcessed(x) => enq'[x] = enq[x]]_vars

\* A broadcast is under way in a room that x has left.
C3_Witness ==
    \E x \in Conns :
        /\ LeaveProcessed(x)
        /\ realRoom[x] \in Rooms
        /\ rm[realRoom[x]].rpc = "forward"

\* C4: a client whose queue is closed is in no clients set and is the target
\* of no broadcast, and a queue is closed only by the room loop, in the
\* close step of that client's Leave, after the client was removed.
C4_ClosedNotMember ==
    /\ [](\A x \in Conns : closed[x] =>
            \A r \in Rooms : x \notin rm[r].clients /\ x \notin Targets(r))
    /\ [][\A x \in Conns : (~closed[x] /\ closed'[x]) =>
            \E r \in Rooms : /\ rm[r].rpc = "close"
                              /\ rm[r].leaving = x
                              /\ x \notin rm[r].clients
                              /\ rm'[r].rpc = "select"]_vars

\* The queue of x is closed, its writer has not yet seen it, and the room
\* still has a member.
C4_Witness ==
    \E x \in Conns :
        /\ closed[x]
        /\ wpc[x] = "run"
        /\ realRoom[x] \in Rooms
        /\ rm[realRoom[x]].clients # {}

\* The connections whose Join room r has received and whose Leave it has not.
JoinedNotLeft(r) ==
    {h \in Conns : realRoom[h] = r /\ pc[h] \in {"read", "forward", "leave"}}

\* C5: the clients set is the result of the Joins and Leaves the loop has
\* received, each applied once (no update lost or applied twice), and it
\* changes only in a step of the room loop that receives a Join or a Leave.
C5_MembershipSerialized ==
    /\ [](\A r \in Rooms : rm[r].clients = JoinedNotLeft(r))
    /\ [][\A r \in Rooms : rm'[r].clients # rm[r].clients =>
            /\ rm[r].rpc = "select"
            /\ \E h \in Conns :
                  \/ /\ FirstSender(r, "join", h)
                     /\ rm'[r].clients = rm[r].clients \cup {h}
                  \/ /\ FirstSender(r, "leave", h)
                     /\ rm'[r].clients = rm[r].clients \ {h}]_vars

\* Both connections joined one room and one of them has left it.
C5_Witness ==
    \E r \in Rooms : \E x \in Conns :
        /\ realRoom[x] = r
        /\ LeaveProcessed(x)
        /\ Cardinality(rm[r].clients) = 1

\* The handlers parked on a channel of room r.
Parked(r) ==
    {h \in Conns : realRoom[h] = r /\ pc[h] \in {"join", "leave", "forward"}}

\* C7: a broadcast is one step of the loop.  While it is under way the room
\* receives no Join, Leave or other message and its clients set is fixed; the
\* clients already enqueued and those still to come are together exactly the
\* clients set; a full queue is waited for, never overfilled or skipped; and
\* the loop returns to the select only when every client was enqueued.
C7_BroadcastAtomic ==
    /\ [](\A r \in Rooms : rm[r].rpc = "forward" =>
            /\ rm[r].cur \notin rm[r].todo
            /\ GotLast(rm[r].msg.id) \cap Targets(r) = {}
            /\ GotLast(rm[r].msg.id) \cup Targets(r) = rm[r].clients)
    /\ [](\A c \in Conns : Len(receive[c]) <= qcap)
    /\ [][\A r \in Rooms : rm[r].rpc = "forward" =>
            /\ rm'[r].clients = rm[r].clients
            /\ \A h \in Parked(r) : pc'[h] = pc[h]
            /\ rm'[r].rpc \in {"forward", "select"}
            /\ rm'[r].rpc = "forward" => rm'[r].msg = rm[r].msg
            /\ rm'[r].rpc = "select" =>
                  \A c \in rm[r].clients :
                      /\ enq'[c] # <<>>
                      /\ enq'[c][Len(enq'[c])] = rm[r].msg.id]_vars

\* A broadcast to two members is blocked on the full queue of the first
\* while a handler waits with a request for the room.
C7_Witness ==
    \E r \in Rooms :
        /\ rm[r].rpc = "forward"
        /\ Len(receive[rm[r].cur]) = qcap
        /\ rm[r].todo # {}
        /\ Parked(r) # {}

Range(q) == {q[i] : i \in 1..Len(q)}

\* The ids of the messages room r has received, in the order received.
ProcIds(r) == [i \in 1..Len(proc[r]) |-> proc[r][i].id]

\* q holds elements of p, none twice, in the order they have in p.
IsSubSeq(q, p) ==
    \E f \in [1..Len(q) -> 1..Len(p)] :
        /\ \A i \in 1..Len(q) : p[f[i]] = q[i]
        /\ \A i, j \in 1..Len(q) : i < j => f[i] < f[j]

\* The broadcast of message m is under way and has still to enqueue to x.
Owed(x, m) ==
    \E r \in Rooms : rm[r].rpc = "forward" /\ rm[r].msg.id = m /\ x \in Targets(r)

\* C2: every message the room processes while x is in its clients set is
\* eventually enqueued on x.receive, exactly once, and the messages are
\* enqueued on x.receive in the order the room loop processed them.
C2_BroadcastCompleteness ==
    /\ [](\A x \in Conns : realRoom[x] \in Rooms =>
            IsSubSeq(enq[x], ProcIds(realRoom[x])))
    /\ \A x \in Conns : \A m \in 1..MaxMsgs :
          Owed(x, m) ~> (m \in Range(enq[x]))

\* The broadcast under way is waiting for room in the full queue of x.
BlockedOn(x) ==
    \E r \in Rooms :
        /\ rm[r].rpc = "forward"
        /\ rm[r].cur = x
        /\ ~closed[x]
        /\ Len(receive[x]) = qcap

\* C6: a broadcast blocked on the full queue of x goes on when the writer of
\* x takes an entry, and also when x leaves (its reader has returned and its
\* Leave is submitted).
C6_BlockEnds ==
    \A x \in Conns :
        /\ (BlockedOn(x) /\ wpc[x] = "run") ~> ~BlockedOn(x)
        /\ (BlockedOn(x) /\ pc[x] = "leave") ~> ~BlockedOn(x)

\* C8: after a transport error on x (its connection is closed by the reader
\* or the writer that saw the error) the Leave of x is processed, and the
\* room goes on taking the requests of the other members.
C8_TransportErrorLocal ==
    \A x \in Conns :
        /\ (sock[x] = "closed") ~> LeaveProcessed(x)
        /\ \A y \in Conns \ {x} :
              (sock[x] = "closed" /\ pc[y] \in {"join", "forward", "leave"})
                  ~> (pc[y] \notin {"join", "forward", "leave"})

\* C9: when the reader of x has returned, the Leave of x is processed, its
\* queue closed and its writer ends; when the writer of x has ended, its
\* reader returns.
C9_TerminateTogether ==
    \A x \in Conns :
        /\ (pc[x] = "leave") ~> (LeaveProcessed(x) /\ wpc[x] = "done")
        /\ (wpc[x] = "done") ~> (pc[x] \in {"leave", "done"})

\* The handlers parked on any channel of room r, oldest first.
ParkedSeq(r) == SelectSeq(pending, LAMBDA x : realRoom[x] = r)

\* The room takes the request of h in this step.
Taken(h) == h \in Range(pending) /\ h \notin Range(pending')

\* C10 as stated: the room processes requests in the order they were
\* submitted, whatever the channel: the request it takes is the oldest of
\* all those waiting for it.
C10_SubmissionOrder ==
    [][\A h \in Conns : Taken(h) => h = Head(ParkedSeq(realRoom[h]))]_vars

\* The ids of the messages of h that room r has received, in the order
\* received.
ProcFrom(r, h) ==
    LET q == SelectSeq(proc[r], LAMBDA e : e.from = h)
    IN [i \in 1..Len(q) |-> q[i].id]

\* C10 as amended: the requests of one connection are processed in the order
\* that connection submitted them: its Join before any of its messages, its
\* messages in the order it read them, its Leave after all of them.
C10_PerConnectionOrder ==
    [][\A h \in Conns : Taken(h) =>
          LET r == realRoom[h]
          IN /\ pc[h] = "join" =>
                   h \notin rm[r].clients /\ ProcFrom(r, h) = <<>>
             /\ pc[h] = "forward" =>
                   /\ h \in rm[r].clients
                   /\ \A m \in Range(ProcFrom(r, h)) : m < jsMessage[h].id
                   /\ ProcFrom(r, h)' = Append(ProcFrom(r, h), jsMessage[h].id)
             /\ pc[h] = "leave" =>
                   /\ h \in rm[r].clients
                   /\ jsMessage[h] = NoMsg
                   /\ ProcFrom(r, h)' = ProcFrom(r, h)]_vars

\* The room took the Join of h, two messages of h and then its Leave.
C10_Witness ==
    \E h \in Conns :
        /\ LeaveProcessed(h)
        /\ Len(ProcFrom(realRoom[h], h)) >= 2


\* How often m occurs in q.
Count(q, m) == Cardinality({i \in 1..Len(q) : q[i] = m})

\* The broadcast of message m by room r is over.
BroadcastDone(r, m) == rm[r].rpc # "forward" \/ rm[r].msg.id # m

\* C11: the sender of a message is one of its recipients: while the message
\* is broadcast the sender is in the clients set and was enqueued it or is
\* still to get it, and when the broadcast is over the message is on the
\* sender's own queue (and on every queue it reached) exactly once.
C11_SelfDelivery ==
    /\ \A r \in Rooms :
          rm[r].rpc = "forward" =>
              /\ rm[r].msg.from \in rm[r].clients
              /\ rm[r].msg.from \in GotLast(rm[r].msg.id) \cup Targets(r)
    /\ \A r \in Rooms : \A i \in 1..Len(proc[r]) :
          /\ BroadcastDone(r, proc[r][i].id) =>
                Count(enq[proc[r][i].from], proc[r][i].id) = 1
          /\ \A x \in Conns : Count(enq[x], proc[r][i].id) <= 1

\* Two members, the broadcast of a message of one of them is over and both
\* have it.
C11_Witness ==
    \E r \in Rooms : \E i \in 1..Len(proc[r]) : \E y \in Conns :
        /\ BroadcastDone(r, proc[r][i].id)
        /\ y # proc[r][i].from
        /\ proc[r][i].id \in Range(enq[y])
        /\ proc[r][i].id \in Range(enq[proc[r][i].from])


\* The room has not yet taken the Join of x.
NotYetJoined(x) ==
    pc[x] \in {"idle", "main_getRoom", "main_cs", "serve", "serve_getRoom",
               "serve_cs", "upgrade", "join"}

\* C12: until its Join is processed the queue of x is empty and x is the
\* target of no broadcast, and a message whose broadcast was over without
\* reaching x (as is every message processed before the Join of x) is never
\* enqueued on x.receive afterwards.
C12_NoBacklog ==
    /\ [](\A x \in Conns : NotYetJoined(x) =>
            /\ enq[x] = <<>>
            /\ receive[x] = <<>>
            /\ \A r \in Rooms : x \notin Targets(r))
    /\ [][\A x \in Conns : \A r \in Rooms : \A i \in 1..Len(proc[r]) :
            (BroadcastDone(r, proc[r][i].id)
                /\ proc[r][i].id \notin Range(enq[x]))
            => proc[r][i].id \notin Range(enq'[x])]_vars

\* x is a member that joined after the room had processed a message, and
\* has been enqueued a later message but not that one.
C12_Witness ==
    \E x \in Conns : \E r \in Rooms : \E i, j \in 1..Len(proc[r]) :
        /\ realRoom[x] = r
        /\ i < j
        /\ proc[r][i].id \notin Range(enq[x])
        /\ enq[x] # <<>>
        /\ enq[x][1] = proc[r][j].id


\* The loop of room r is stalled: its broadcast waits on the full queue of a
\* client whose writer has returned.
Stalled(r) ==
    /\ rm[r].rpc = "forward"
    /\ BlockedOn(rm[r].cur)
    /\ wpc[rm[r].cur] = "done"

\* C13: the registry lock is held only by a handler between the lookup and
\* the return of getRoom, and that handler can always return; a handler
\* calling getRoom can take the lock whenever it is free; and a room at its
\* select can take the oldest request on each of its channels, and a room in
\* a broadcast can send to a queue with room, whatever state the other rooms
\* are in.
C13_LockAndRoomsIndependent ==
    /\ mu # NoConn => pc[mu] \in {"main_cs", "serve_cs"}
    /\ \A h \in Conns :
          /\ pc[h] \in {"main_cs", "serve_cs"} => ENABLED GetRoomReturn(h)
          /\ (pc[h] \in {"main_getRoom", "serve_getRoom"} /\ mu = NoConn)
                => ENABLED GetRoomLock(h)
    /\ \A r \in Rooms :
          /\ \A h \in Conns :
                rm[r].rpc = "select" =>
                    /\ FirstSender(r, "join", h) => ENABLED RoomJoin(r, h)
                    /\ FirstSender(r, "leave", h) => ENABLED RoomLeave(r, h)
                    /\ FirstSender(r, "forward", h)
                          => ENABLED RoomForward(r, h)
          /\ rm[r].rpc = "close" => ENABLED RoomClose(r)
          /\ (rm[r].rpc = "forward" /\ CanSend(rm[r].cur))
                => ENABLED RoomSend(r)

\* One room is stalled while another room, at its select, has a Join to take.
C13_Witness ==
    \E r \in Rooms :
        /\ Stalled(r)
        /\ \E q \in Rooms \ {r} : \E h \in Conns :
              /\ rm[q].rpc = "select"
              /\ FirstSender(q, "join", h)


\* The request of h came without room parameter.
Rejected(h) == pc[h] # "idle" /\ reqName[h] = ""

\* C14: a request with a missing room parameter ends at once with status
\* 400: the step that answers it changes nothing but the handler's own
\* position and response, and afterwards the registry has no entry and no room
\* for the empty name, no client was constructed for the request, the handler
\* never called getRoom and is parked on no channel and member of no room.
C14_MissingParamRejected ==
    /\ [](/\ rooms[""] = NoRoom
          /\ Created("") = {}
          /\ \A h \in Conns : Rejected(h) =>
                /\ pc[h] = "done"
                /\ resp[h] = StatusBadRequest
                /\ sock[h] = "none" /\ name[h] = <<>> /\ wpc[h] = "none"
                /\ receive[h] = <<>> /\ ~closed[h] /\ enq[h] = <<>>
                /\ found[h] = NoRoom /\ recv[h] = NoRoom
                /\ realRoom[h] = NoRoom
                /\ mu # h
                /\ h \notin Range(pending)
                /\ \A r \in Rooms : h \notin rm[r].clients)
    /\ [][\A h \in Conns : (~Rejected(h) /\ Rejected(h)') =>
            UNCHANGED <<mu, rooms, rm, found, recv, realRoom, connVars, nread,
                        panicked, pending, enq, proc>>]_vars

\* A request without room parameter was answered with 400 while a room
\* exists with a member in it.
C14_Witness ==
    \E h \in Conns :
        /\ Rejected(h)
        /\ resp[h] = StatusBadRequest
        /\ \E r \in Rooms : rm[r].clients # {}


\* C15: a registry entry, once made, maps its name to the same room instance
\* in every later state, and that instance stays the room of that name,
\* whether or not it has members.
C15_RegistryPersistent ==
    [][/\ \A n \in Params : rooms[n] # NoRoom => rooms'[n] = rooms[n]
       /\ Len(rm') >= Len(rm)
       /\ \A r \in Rooms : rm'[r].name = rm[r].name]_vars

\* The only member of a room has left it, and another connection, not yet a
\* member, holds the same, now empty, room from the registry.
C15_Witness ==
    \E n \in RoomNames : \E g, h \in Conns :
        /\ g # h
        /\ rooms[n] # NoRoom
        /\ rm[rooms[n]].clients = {}
        /\ realRoom[h] = rooms[n] /\ closed[h]
        /\ realRoom[g] = rooms[n] /\ pc[g] = "join"


\* The handler of h has submitted its Leave.
LeaveSubmitted(h) == pc[h] = "leave" \/ (pc[h] = "done" /\ wpc[h] # "none")

\* C17: no goroutine panics; when the room loop is about to close the queue
\* of a client that queue is still open; a queue is closed only by the
\* room's Leave step for that client; a handler that has submitted its Leave
\* submits nothing more; and the handler of a joined client ends only with
\* its Leave taken by the room.
C17_ClosedOnce ==
    /\ [](/\ ~panicked
          /\ \A r \in Rooms :
                rm[r].rpc = "close" =>
                    /\ ~closed[rm[r].leaving]
                    /\ pc[rm[r].leaving] = "done"
                    /\ \A q \in Rooms \ {r} :
                          rm[q].rpc = "close" =>
                              rm[q].leaving # rm[r].leaving
          /\ \A h \in Conns :
                /\ closed[h] => pc[h] = "done"
                /\ (pc[h] = "done" /\ wpc[h] # "none") =>
                      \/ closed[h]
                      \/ \E r \in Rooms :
                            rm[r].rpc = "close" /\ rm[r].leaving = h)
    /\ [][\A h \in Conns :
            /\ (~closed[h] /\ closed'[h]) =>
                  \E r \in Rooms : rm[r].rpc = "close" /\ rm[r].leaving = h
            /\ LeaveSubmitted(h) =>
                  /\ LeaveSubmitted(h)'
                  /\ pc'[h] # pc[h] => (pc[h] = "leave" /\ pc'[h] = "done")
            /\ closed[h] => closed'[h]]_vars

\* The writer of h ended on a write error (it left a message in the queue),
\* the reader ended too, and the room closed the queue.
C17_Witness ==
    \E h \in Conns :
        /\ closed[h]
        /\ wpc[h] = "done"
        /\ pc[h] = "done"
        /\ receive[h] # <<>>
        /\ sock[h] = "closed"


\* C18: a connection whose reader runs (reading, or parked on forward) is in
\* the clients set of its room, one still waiting to join is in none and has
\* sent nothing; a handler that has submitted its Leave, or ended, has no
\* message waiting on forward, and is in the set until the Leave is taken;
\* so whenever the room loop takes a message off forward, its sender is in
\* the clients set before and after that step.
C18_SenderIsMember ==
    /\ [](\A h \in Conns :
            /\ pc[h] \in {"read", "forward"} =>
                  /\ realRoom[h] \in Rooms
                  /\ h \in rm[realRoom[h]].clients
                  /\ wpc[h] # "none"
            /\ pc[h] = "forward" <=> jsMessage[h] # NoMsg
            /\ NotYetJoined(h) =>
                  /\ \A r \in Rooms : h \notin rm[r].clients
                  /\ \A r \in Rooms : \A i \in 1..Len(proc[r]) :
                        proc[r][i].from # h
            /\ pc[h] = "leave" => h \in rm[realRoom[h]].clients
            /\ \A r \in Rooms :
                  h \in rm[r].clients =>
                      realRoom[h] = r /\ pc[h] \in {"read", "forward", "leave"})
    /\ [][\A h \in Conns :
            (Taken(h) /\ pc[h] = "forward") =>
                /\ h \in rm[realRoom[h]].clients
                /\ h \in rm'[realRoom[h]].clients
                /\ proc'[realRoom[h]] =
                      Append(proc[realRoom[h]],
                             [id |-> jsMessage[h].id, from |-> h])]_vars

\* The room has processed a message of h, the reader of h has returned and
\* its Leave waits to be taken: h is still in the clients set.
C18_Witness ==
    \E h \in Conns :
        /\ pc[h] = "leave"
        /\ \E i \in 1..Len(proc[realRoom[h]]) : proc[realRoom[h]][i].from = h
        /\ h \in rm[realRoom[h]].clients


\* The place of m in q (m occurs in q).
Pos(q, m) == CHOOSE i \in 1..Len(q) : q[i] = m

\* The ids of the messages in queue q, oldest first.
Ids(q) == [i \in 1..Len(q) |-> q[i].id]

\* The last k entries of q.
LastOf(q, k) == SubSeq(q, Len(q) - k + 1, Len(q))

\* C19: two messages enqueued to two clients were enqueued to both in the
\* same order; two messages of one sender were enqueued to every client in
\* the order the sender's reader submitted them (ids count the frames in the
\* order they were read); and every queue holds the messages last enqueued
\* to it, oldest first, so that the writer takes them in that order.
C19_CommonOrder ==
    /\ \A x, y \in Conns : \A i, j \in 1..Len(enq[x]) :
          (i < j /\ enq[x][i] \in Range(enq[y]) /\ enq[x][j] \in Range(enq[y]))
          => Pos(enq[y], enq[x][i]) < Pos(enq[y], enq[x][j])
    /\ \A x \in Conns : \A r \in Rooms : \A k, l \in 1..Len(proc[r]) :
          (/\ proc[r][k].from = proc[r][l].from
           /\ proc[r][k].id < proc[r][l].id
           /\ proc[r][k].id \in Range(enq[x])
           /\ proc[r][l].id \in Range(enq[x]))
          => Pos(enq[x], proc[r][k].id) < Pos(enq[x], proc[r][l].id)
    /\ \A x \in Conns :
          /\ Len(receive[x]) <= Len(enq[x])
          /\ Ids(receive[x]) = LastOf(enq[x], Len(receive[x]))

\* Two members were each enqueued the same two messages, one from each of
\* them, and the queue of one still holds both.
C19_Witness ==
    \E x, y \in Conns : \E r \in Rooms :
        /\ x # y
        /\ {x, y} \subseteq rm[r].clients
        /\ Len(receive[x]) = 2
        /\ Range(Ids(receive[x])) \subseteq Range(enq[y])
        /\ \E k, l \in 1..Len(proc[r]) :
              /\ proc[r][k].from = x /\ proc[r][l].from = y
              /\ {proc[r][k].id, proc[r][l].id} = Range(Ids(receive[x]))

====
